---- MODULE Spec2Model ----
(***************************************************************************)
(* The notebook fuel_moisture_rf.ipynb as a state machine: one action per  *)
(* code cell, run in document order against a file system, an analytical   *)
(* store (one table, one named model) and the kernel's global variables.   *)
(* An exception that a cell does not catch ends that cell and is recorded  *)
(* in `raised`; the next cell can still be run, as in a notebook.  Names    *)
(* the notebook uses without binding them (pd, ibis, RAD_EARTH_K) are      *)
(* taken to be bound in the kernel.                                        *)
(***************************************************************************)
EXTENDS Integers, Sequences, FiniteSets, TLC

VARIABLES
    pc,                 \* the cell that runs next
    reruns,             \* how many times a stage or the notebook was restarted
    cwd_is_path,        \* whether the kernel's working directory is `path`
    fs,                 \* the paths that exist on the local file system
    archive_files,      \* the label files the archive holds
    table,              \* su_sar_moisture_content in the store
    model,              \* su_sar_rf in the store
    sl,                 \* kernel global: schema column list
    df,                 \* kernel global: table details frame
    column_names_list,  \* kernel global
    static_cols,        \* kernel global
    blacklist,          \* kernel global
    varlist,            \* kernel global
    q,                  \* kernel global: the last statement text built
    printed,            \* what the cells printed
    raised,             \* exceptions no cell caught
    issued,             \* statements and queries sent to the store
    identifier_cols     \* the identifier list the denylist is started from

vars == <<pc, reruns, cwd_is_path, fs, archive_files, table, model, sl, df,
          column_names_list, static_cols, blacklist, varlist, q, printed,
          raised, issued, identifier_cols>>

-----------------------------------------------------------------------------
(* Strings.  A column name is a TLA+ string; Chars spells it out, so that  *)
(* Python's substring test can be computed.                                *)

Chars ==
    "site" :> <<"s", "i", "t", "e">> @@
    "date_" :> <<"d", "a", "t", "e", "_">> @@
    "geom" :> <<"g", "e", "o", "m">> @@
    "siltt" :> <<"s", "i", "l", "t", "t">> @@
    "sandt" :> <<"s", "a", "n", "d", "t">> @@
    "clayt" :> <<"c", "l", "a", "y", "t">> @@
    "obs_date" :> <<"o", "b", "s", "_", "d", "a", "t", "e">> @@
    "obs_doy" :> <<"o", "b", "s", "_", "d", "o", "y">> @@
    "hex08" :> <<"h", "e", "x", "0", "8">> @@
    "sin_doy" :> <<"s", "i", "n", "_", "d", "o", "y">> @@
    "cos_doy" :> <<"c", "o", "s", "_", "d", "o", "y">> @@
    "zenith" :> <<"z", "e", "n", "i", "t", "h">> @@
    "geom0" :> <<"g", "e", "o", "m", "0">> @@
    "Shape_Leng" :> <<"S", "h", "a", "p", "e", "_", "L", "e", "n", "g">> @@
    "Shape_Area" :> <<"S", "h", "a", "p", "e", "_", "A", "r", "e", "a">> @@
    "OBJECTID" :> <<"O", "B", "J", "E", "C", "T", "I", "D">> @@
    "hex08r6" :> <<"h", "e", "x", "0", "8", "r", "6">> @@
    "elevation" :> <<"e", "l", "e", "v", "a", "t", "i", "o", "n">> @@
    "slope" :> <<"s", "l", "o", "p", "e">> @@
    "aspect" :> <<"a", "s", "p", "e", "c", "t">> @@
    "sand" :> <<"s", "a", "n", "d">> @@
    "silt" :> <<"s", "i", "l", "t">> @@
    "clay" :> <<"c", "l", "a", "y">> @@
    "canopy_heightt" :> <<"c", "a", "n", "o", "p", "y", "_", "h", "e", "i", "g", "h", "t", "t">> @@
    "forest_cover" :> <<"f", "o", "r", "e", "s", "t", "_", "c", "o", "v", "e", "r">> @@
    "t1" :> <<"t", "1">> @@
    "t2" :> <<"t", "2">> @@
    "t3" :> <<"t", "3">> @@
    "slope_t3" :> <<"s", "l", "o", "p", "e", "_", "t", "3">> @@
    "target" :> <<"t", "a", "r", "g", "e", "t">> @@
    "a" :> <<"a">> @@
    "b" :> <<"b">> @@
    "x_t1" :> <<"x", "_", "t", "1">> @@
    "x" :> <<"x">> @@
    "cat1" :> <<"c", "a", "t", "1">> @@
    "cont1" :> <<"c", "o", "n", "t", "1">>

\* Python's  sub in s  on two strings (given spelled out)
Contains(s, sub) ==
    \E i \in 0..(Len(s) - Len(sub)) : SubSeq(s, i + 1, i + Len(sub)) = sub

\* Python's  sub in c  on two column names
StrIn(sub, c) == Contains(Chars[c], Chars[sub])

\* Python's  x in list
MemberOf(x, list) == \E i \in 1..Len(list) : list[i] = x

-----------------------------------------------------------------------------
(* Predictor-list construction *)

\* the identifier list the denylist starts from
CodeBlacklist ==
    <<"site", "date_", "obs_date", "geom", "geom0", "Shape_Leng",
      "Shape_Area", "OBJECTID", "hex08", "hex08r6">>

\* the static attribute stems
CodeStaticCols ==
    <<"elevation", "slope", "aspect", "sand", "silt", "clay",
      "canopy_heightt", "forest_cover">>

\* the condition under which column c is appended for stem sc
LagMatchOr(sc, c) ==
    StrIn(sc, c) \/ StrIn("t1", c) \/ StrIn("t2", c) \/ StrIn("t3", c)

LagMatch(sc, c) ==
    \/ (StrIn(sc, c) /\ StrIn("t1", c))
    \/ (StrIn(sc, c) /\ StrIn("t2", c))
    \/ (StrIn(sc, c) /\ StrIn("t3", c))

\* the inner loop: c is appended once for every stem it matches
StemAppends(c, stems) ==
    LET hits == SelectSeq(stems, LAMBDA sc : LagMatch(sc, c))
    IN  [i \in 1..Len(hits) |-> c]

\* the outer loop over the catalog's column names: what it appends, in order
RECURSIVE Appended(_, _)
Appended(names, stems) ==
    IF names = <<>> THEN <<>>
    ELSE StemAppends(Head(names), stems) \o Appended(Tail(names), stems)

\* the blacklist after the loops
ExtendBlacklist(bl, names, stems) == bl \o Appended(names, stems)

\* df["type"].values[df['name'] == c]: the types of the frame's rows named c
TypesOf(frame, c) == {frame[i].type : i \in {j \in 1..Len(frame) : frame[j].name = c}}

IsContType(col_type) ==
    ("DOUBLE" \in col_type) \/ ("FLOAT" \in col_type) \/ ("SMALLINT" \in col_type)

IsCatType(col_type) == ~IsContType(col_type) /\ "string" \in col_type

cont_cols(names, frame, bl) ==
    SelectSeq(names, LAMBDA c : ~MemberOf(c, bl) /\ IsContType(TypesOf(frame, c)))

cat_cols(names, frame, bl) ==
    SelectSeq(names, LAMBDA c : ~MemberOf(c, bl) /\ IsCatType(TypesOf(frame, c)))

\* the separator and the dummy continuous predictor, as pieces of varlist
SEP == ", "

DUMMY == "1 "

\* ", ".join(cols)
RECURSIVE Join(_)
Join(cols) ==
    IF Len(cols) = 0 THEN <<>>
    ELSE IF Len(cols) = 1 THEN <<cols[1]>>
    ELSE <<Head(cols), SEP>> \o Join(Tail(cols))

\* cont_cols[1:]
ContTail(cont) == Tail(cont)

\* the string the function returns, as the sequence of its pieces
OrganizeCols(names, frame, bl) ==
    LET cat == cat_cols(names, frame, bl)
        cont == cont_cols(names, frame, bl)
    IN  <<names[1], SEP>>
        \o (IF Len(cat) > 0 THEN Join(cat) \o <<SEP>> ELSE <<>>)
        \o (IF Len(cont) > 0 THEN Join(ContTail(cont)) ELSE <<DUMMY>>)

organize_predictor_cols(frame) == OrganizeCols(column_names_list, frame, blacklist)

\* varlist.split(','): the items of the list, each the pieces between separators
RECURSIVE SplitPieces(_, _)
SplitPieces(v, cur) ==
    IF v = <<>> THEN <<cur>>
    ELSE IF Head(v) = SEP THEN <<cur>> \o SplitPieces(Tail(v), <<>>)
    ELSE SplitPieces(Tail(v), Append(cur, Head(v)))

Elements(v) == SplitPieces(v, <<>>)

-----------------------------------------------------------------------------
(* Values held by the table.  A value is <<tag, a, b>>:                      *)
(*   <<"null",0,0>>  NULL            <<"num",n,0>>   the number n            *)
(*   <<"date",y,d>>  day d of year y <<"h3",x,y>>    geoToH3(x, y, 8)        *)
(*   <<"cos",n,0>>   cos(2 * pi * n / 365.25)                                *)
(*   <<"zen",y,n>>   90 - y + 23.5 * sin((360 * (284 + n)) / 365.0)          *)

NULL == <<"null", 0, 0>>

Num(n) == <<"num", n, 0>>

\* the soils no-data value -999.0
SENTINEL == -999

\* the derived columns' fields of a freshly loaded row hold NULL
NewRow(date, x, y, silt, sand, clay) ==
    [date_ |-> date, geom |-> <<x, y>>, siltt |-> silt, sandt |-> sand,
     clayt |-> clay, obs_date |-> NULL, obs_doy |-> NULL, hex08 |-> NULL,
     sin_doy |-> NULL, cos_doy |-> NULL, zenith |-> NULL]

\* the columns a geo file load creates the table with
BaseCols ==
    <<[name |-> "site", type |-> "STR"], [name |-> "date_", type |-> "STR"],
      [name |-> "sandt", type |-> "FLOAT"], [name |-> "siltt", type |-> "FLOAT"],
      [name |-> "clayt", type |-> "FLOAT"], [name |-> "geom", type |-> "POINT"]>>

NoTable == [exists |-> FALSE, cols |-> <<>>, rows |-> <<>>]

ColNames(t) == [i \in 1..Len(t.cols) |-> t.cols[i].name]

HasCol(t, c) == t.exists /\ MemberOf(c, ColNames(t))

-----------------------------------------------------------------------------
(* The legacy date string: month/day/two-digit year, spelled out *)

DigitVal ==
    "0" :> 0 @@ "1" :> 1 @@ "2" :> 2 @@ "3" :> 3 @@ "4" :> 4 @@
    "5" :> 5 @@ "6" :> 6 @@ "7" :> 7 @@ "8" :> 8 @@ "9" :> 9

\* the pieces of s between separators sep
RECURSIVE SplitOn(_, _, _)
SplitOn(s, sep, cur) ==
    IF s = <<>> THEN <<cur>>
    ELSE IF Head(s) = sep THEN <<cur>> \o SplitOn(Tail(s), sep, <<>>)
    ELSE SplitOn(Tail(s), sep, Append(cur, Head(s)))

\* split_part(s, '/', n): the n-th piece, the empty string when there is none
split_part(s, sep, n) ==
    LET parts == SplitOn(s, sep, <<>>)
    IN  IF n <= Len(parts) THEN parts[n] ELSE <<>>

IsNumber(s) == Len(s) \in {1, 2} /\ \A i \in 1..Len(s) : s[i] \in DOMAIN DigitVal

RECURSIVE ToInt(_, _)
ToInt(s, acc) == IF s = <<>> THEN acc ELSE ToInt(Tail(s), 10 * acc + DigitVal[Head(s)])

IsLeap(y) == (y % 4 = 0 /\ y % 100 # 0) \/ y % 400 = 0

DaysIn(m, y) ==
    IF m = 2 THEN (IF IsLeap(y) THEN 29 ELSE 28)
    ELSE IF m \in {4, 6, 9, 11} THEN 30 ELSE 31

RECURSIVE DaysBefore(_, _)
DaysBefore(m, y) == IF m = 1 THEN 0 ELSE DaysBefore(m - 1, y) + DaysIn(m - 1, y)

\* try_cast('20' || part 3 || '-' || part 1 || '-' || part 2 as date)
ParseDate(s) ==
    LET yy == split_part(s, "/", 3)
        mm == split_part(s, "/", 1)
        dd == split_part(s, "/", 2)
    IN  IF IsNumber(yy) /\ Len(yy) = 2 /\ IsNumber(mm) /\ IsNumber(dd)
        THEN LET y == 2000 + ToInt(yy, 0)
                 m == ToInt(mm, 0)
                 d == ToInt(dd, 0)
             IN  IF m \in 1..12 /\ d \in 1..DaysIn(m, y)
                 THEN <<"date", y, DaysBefore(m, y) + d>>
                 ELSE NULL
        ELSE NULL

\* a day of year that is 0, not null, where there is no date
ExtractDoyOfNull(v) == IF v = NULL THEN Num(0) ELSE Num(v[3])

\* extract(doy from <date>)
ExtractDoy(v) == IF v = NULL THEN NULL ELSE Num(v[3])

-----------------------------------------------------------------------------
(* Statements, and how the store executes them *)

Stmt(op, col, arg) == [op |-> op, col |-> col, arg |-> arg, list |-> <<>>]

CreateModelStmt(vl, options) ==
    [op |-> "create_model", col |-> "", arg |-> options, list |-> vl]

\* the columns an update expression reads
ExprCols(expr) ==
    CASE expr = "parse_date" -> {"date_"}
      [] expr = "doy_of_parse_date" -> {"date_"}
      [] expr = "h3" -> {"geom"}
      [] expr = "cos_norm_doy" -> {"obs_doy"}
      [] expr = "zenith" -> {"geom", "obs_doy"}
      [] OTHER -> {}

\* the value of an update expression on one row
EvalExpr(expr, row) ==
    CASE expr = "parse_date" -> ParseDate(row.date_)
      [] expr = "doy_of_parse_date" -> ExtractDoy(ParseDate(row.date_))
      [] expr = "h3" -> <<"h3", row.geom[1], row.geom[2]>>
      [] expr = "cos_norm_doy" ->
            IF row.obs_doy = NULL THEN NULL ELSE <<"cos", row.obs_doy[2], 0>>
      [] expr = "zenith" ->
            IF row.obs_doy = NULL THEN NULL
            ELSE <<"zen", row.geom[2], row.obs_doy[2]>>
      [] OTHER -> NULL

\* the items of a select list name columns of the table (or are literals)
SelectListOk(t, vl) ==
    \A i \in 1..Len(Elements(vl)) :
        LET e == Elements(vl)[i]
        IN  Len(e) = 1 /\ (e[1] = DUMMY \/ HasCol(t, e[1]))

NoModel == [exists |-> FALSE, list |-> <<>>, options |-> ""]

\* Whether the store can execute the statement at all; a statement it can
\* execute may still fail when `lucky` is FALSE (a load or a training run).
Executable(s, t, m) ==
    CASE s.op = "copy" -> TRUE
      [] s.op = "null_sentinel" -> HasCol(t, s.col)
      [] s.op = "add_column" -> t.exists /\ ~HasCol(t, s.col)
      [] s.op = "update" ->
            HasCol(t, s.col) /\ \A c \in ExprCols(s.arg) : HasCol(t, c)
      [] s.op = "select_dates" -> HasCol(t, "date_")
      [] s.op = "create_model" -> t.exists /\ SelectListOk(t, s.list)
      [] s.op \in {"evaluate", "show_details", "importance"} -> m.exists
      [] OTHER -> FALSE

\* the table after the statement has been executed
TableAfter(s, t, rows) ==
    CASE s.op = "copy" ->
            [exists |-> TRUE,
             cols |-> IF t.exists THEN t.cols ELSE BaseCols,
             rows |-> t.rows \o rows]
      [] s.op = "null_sentinel" ->
            [t EXCEPT !.rows = [i \in 1..Len(t.rows) |->
                IF t.rows[i][s.col] = Num(SENTINEL)
                THEN [t.rows[i] EXCEPT ![s.col] = NULL] ELSE t.rows[i]]]
      [] s.op = "add_column" ->
            [t EXCEPT !.cols = Append(t.cols, [name |-> s.col, type |-> s.arg])]
      [] s.op = "update" ->
            [t EXCEPT !.rows = [i \in 1..Len(t.rows) |->
                [t.rows[i] EXCEPT ![s.col] = EvalExpr(s.arg, t.rows[i])]]]
      [] OTHER -> t

ModelAfter(s, m) ==
    IF s.op = "create_model"
    THEN [exists |-> TRUE, list |-> s.list, options |-> s.arg]
    ELSE m

\* con.execute(s) and pd.read_sql_query(s, con): the outcome and the store after
Exec(s, t, m, rows, lucky) ==
    IF Executable(s, t, m) /\ lucky
    THEN [ok |-> TRUE, table |-> TableAfter(s, t, rows), model |-> ModelAfter(s, m)]
    ELSE [ok |-> FALSE, table |-> t, model |-> m]

-----------------------------------------------------------------------------
(* The cells, in document order *)

Cells ==
    <<"download", "extract", "ingest", "schema", "clean_soil", "preview_dates",
      "add_obs_date", "add_obs_doy", "set_obs_date", "set_obs_doy", "hex08",
      "sin_doy", "cos_doy", "add_zenith", "set_zenith", "details", "schema2",
      "blacklist", "organize", "build_create1", "create1", "eval1",
      "build_create2", "create2", "show_details", "eval2", "importance", "done">>

CellIndex(c) == CHOOSE i \in 1..Len(Cells) : Cells[i] = c

NextCell(c) == Cells[CellIndex(c) + 1]

\* the first cell of each stage, and the end of the notebook
StageStarts == <<"download", "ingest", "schema", "hex08", "blacklist", "done">>

NoStmt == Stmt("none", "", "")

Said(msg) == [cell |-> pc, msg |-> msg, stmt |-> NoStmt]

SaidWith(msg, s) == [cell |-> pc, msg |-> msg, stmt |-> s]

Raise(err) == [cell |-> pc, err |-> err]

Sent(s, ok) == [cell |-> pc, stmt |-> s, ok |-> ok]

kernel == <<sl, df, column_names_list, static_cols, blacklist, varlist, q>>

env == <<cwd_is_path, archive_files, reruns, identifier_cols>>

-----------------------------------------------------------------------------
(* Acquisition *)

\* not os.path.exists(full_data_path)
NeedsDownload(files) == "archive" \notin files

\* not os.path.exists(extracted)
NeedsExtract(files) == "extracted" \notin files

\* !tar xvfz {full_data_path}: the tree is unpacked in the working directory
TarExtract(files, here) ==
    IF "archive" \in files
    THEN files \cup {IF here THEN "extracted" ELSE "cwd_tree"}
    ELSE files

DownloadCell ==
    /\ pc = "download"
    /\ pc' = NextCell(pc)
    /\ IF NeedsDownload(fs)
       THEN \E ok \in BOOLEAN :
              /\ printed' = Append(printed, Said("Downloading using Radiant Hub API"))
              /\ fs' = IF ok THEN fs \cup {"archive"} ELSE fs
              /\ raised' = IF ok THEN raised ELSE Append(raised, Raise("download"))
       ELSE /\ printed' = Append(printed, Said("Data already downloaded"))
            /\ UNCHANGED <<fs, raised>>
    /\ UNCHANGED <<env, kernel, table, model, issued>>

ExtractCell ==
    /\ pc = "extract"
    /\ pc' = NextCell(pc)
    /\ IF NeedsExtract(fs)
       THEN /\ printed' = printed \o <<Said("TAR extract will be called"),
                                       Said("Extracting data")>>
            /\ fs' = TarExtract(fs, cwd_is_path)
       ELSE /\ printed' = printed \o <<Said("TAR extract will be called"),
                                       Said("TAR folder already extracted")>>
            /\ UNCHANGED fs
    /\ UNCHANGED <<env, kernel, table, model, issued, raised>>

-----------------------------------------------------------------------------
(* Ingestion *)

\* glob.glob(f"{extracted}/su_sar_moisture_content*/labels.geojson")
Glob(files, archive) == IF "extracted" \in files THEN archive ELSE <<>>

CopyStmt(f) == Stmt("copy", "", f.name)

\* the loop without its try/except: the first failed load ends it
RECURSIVE IngestLoopAbort(_, _, _, _)
IngestLoopAbort(files, i, failed, st) ==
    IF i > Len(files) THEN st
    ELSE LET s == CopyStmt(files[i])
             r == Exec(s, st.table, model, files[i].rows, i \notin failed)
             st2 == [table |-> r.table,
                     issued |-> Append(st.issued, Sent(s, r.ok)),
                     printed |-> st.printed,
                     raised |-> IF r.ok THEN st.raised
                                ELSE Append(st.raised, Raise("copy"))]
         IN  IF r.ok THEN IngestLoopAbort(files, i + 1, failed, st2) ELSE st2

\* the loop: one COPY per file; a failed one is reported and the loop goes on
RECURSIVE IngestLoop(_, _, _, _)
IngestLoop(files, i, failed, st) ==
    IF i > Len(files) THEN st
    ELSE LET s == CopyStmt(files[i])
             r == Exec(s, st.table, model, files[i].rows, i \notin failed)
         IN  IngestLoop(files, i + 1, failed,
                 [table |-> r.table,
                  issued |-> Append(st.issued, Sent(s, r.ok)),
                  printed |-> IF r.ok THEN st.printed
                              ELSE Append(st.printed,
                                     SaidWith("Problem loading soil moisture file", s)),
                  raised |-> st.raised])

IngestCell ==
    /\ pc = "ingest"
    /\ pc' = NextCell(pc)
    /\ LET files == Glob(fs, archive_files)
       IN  /\ \E failed \in SUBSET (1..Len(files)) :
                LET st == IngestLoop(files, 1, failed,
                             [table |-> table, issued |-> issued,
                              printed |-> printed, raised |-> raised])
                IN  /\ table' = st.table
                    /\ issued' = st.issued
                    /\ printed' = st.printed
                    /\ raised' = st.raised
           /\ q' = IF files = <<>> THEN q ELSE CopyStmt(files[Len(files)])
    /\ UNCHANGED <<env, fs, model, sl, df, column_names_list, static_cols,
                   blacklist, varlist>>

-----------------------------------------------------------------------------
(* Statements a cell sends outside any try: the first that fails raises,   *)
(* which ends the cell.                                                    *)

RECURSIVE RunStmts(_, _)
RunStmts(stmts, st) ==
    IF stmts = <<>> THEN st
    ELSE LET r == Exec(Head(stmts), st.table, model, <<>>, TRUE)
             st2 == [table |-> r.table,
                     issued |-> Append(st.issued, Sent(Head(stmts), r.ok)),
                     raised |-> IF r.ok THEN st.raised
                                ELSE Append(st.raised, Raise("store"))]
         IN  IF r.ok THEN RunStmts(Tail(stmts), st2) ELSE st2

\* the cell sends stmts; the table, issued and raised after it
Sends(stmts) ==
    LET st == RunStmts(stmts, [table |-> table, issued |-> issued, raised |-> raised])
    IN  /\ table' = st.table
        /\ issued' = st.issued
        /\ raised' = st.raised

\* list(ibis.table(...).schema()): the table's column names
SchemaCell(cell) ==
    /\ pc = cell
    /\ pc' = NextCell(pc)
    /\ IF table.exists
       THEN sl' = ColNames(table) /\ UNCHANGED raised
       ELSE raised' = Append(raised, Raise("no table")) /\ UNCHANGED sl
    /\ UNCHANGED <<env, fs, table, model, df, column_names_list, static_cols,
                   blacklist, varlist, q, printed, issued>>

-----------------------------------------------------------------------------
(* Cleaning *)

SoilFields == <<"siltt", "sandt", "clayt">>

SoilStmtsTwo == <<Stmt("null_sentinel", "siltt", ""), Stmt("null_sentinel", "sandt", "")>>

\* the three UPDATE ... SET f = NULL WHERE f = -999.0
SoilStmts == [i \in 1..Len(SoilFields) |-> Stmt("null_sentinel", SoilFields[i], "")]

CleanSoilCell ==
    /\ pc = "clean_soil"
    /\ pc' = NextCell(pc)
    /\ Sends(SoilStmts)
    /\ UNCHANGED <<env, fs, model, kernel, printed>>

PreviewDatesCell ==
    /\ pc = "preview_dates"
    /\ pc' = NextCell(pc)
    /\ q' = Stmt("select_dates", "", "")
    /\ Sends(<<Stmt("select_dates", "", "")>>)
    /\ df' = IF HasCol(table, "date_") THEN [kind |-> "dates", frame |-> <<>>] ELSE df
    /\ UNCHANGED <<env, fs, model, sl, column_names_list, static_cols, blacklist,
                   varlist, printed>>

\* a cell that is one con.execute(...) of a literal statement
ExecuteCell(cell, s) ==
    /\ pc = cell
    /\ pc' = NextCell(pc)
    /\ Sends(<<s>>)
    /\ UNCHANGED <<env, fs, model, kernel, printed>>

\* cells that bind q to a statement and then send it
BuildAndExecuteCell(cell, s) ==
    /\ pc = cell
    /\ pc' = NextCell(pc)
    /\ q' = s
    /\ Sends(<<s>>)
    /\ UNCHANGED <<env, fs, model, sl, df, column_names_list, static_cols,
                   blacklist, varlist, printed>>

AddObsDateCell == ExecuteCell("add_obs_date", Stmt("add_column", "obs_date", "TIMESTAMP"))

AddObsDoyCell == ExecuteCell("add_obs_doy", Stmt("add_column", "obs_doy", "SMALLINT"))

SetObsDateCell == BuildAndExecuteCell("set_obs_date", Stmt("update", "obs_date", "parse_date"))

SetObsDoyCell ==
    BuildAndExecuteCell("set_obs_doy", Stmt("update", "obs_doy", "doy_of_parse_date"))

-----------------------------------------------------------------------------
(* Enrichment *)

\* if not <guard> in sl: ALTER TABLE ... ADD COLUMN <add>; q = update; execute
GuardedAddCell(cell, guard, add, type, upd) ==
    /\ pc = cell
    /\ pc' = NextCell(pc)
    /\ IF sl = <<>>
       THEN /\ raised' = Append(raised, Raise("sl is not bound"))
            /\ UNCHANGED <<table, issued, q>>
       ELSE IF ~MemberOf(guard, sl)
       THEN /\ Sends(<<Stmt("add_column", add, type), upd>>)
            /\ q' = IF Executable(Stmt("add_column", add, type), table, model)
                    THEN upd ELSE q
       ELSE UNCHANGED <<table, issued, raised, q>>
    /\ UNCHANGED <<env, fs, model, sl, df, column_names_list, static_cols,
                   blacklist, varlist, printed>>

Hex08Cell ==
    GuardedAddCell("hex08", "hex08", "hex08", "BIGINT", Stmt("update", "hex08", "h3"))

\* the update the sin_doy cell sends
SinUpdate == Stmt("update", "cos_doy", "cos_norm_doy")

SinDoyCell == GuardedAddCell("sin_doy", "sin_doy", "sin_doy", "FLOAT", SinUpdate)

CosDoyCell ==
    GuardedAddCell("cos_doy", "cos_doy", "cos_doy", "FLOAT",
                   Stmt("update", "cos_doy", "cos_norm_doy"))

AddZenithCell == ExecuteCell("add_zenith", Stmt("add_column", "zenith", "FLOAT"))

SetZenithCell == BuildAndExecuteCell("set_zenith", Stmt("update", "zenith", "zenith"))

\* con.get_table_details, pd.DataFrame, list(df['name'])
DetailsCell ==
    /\ pc = "details"
    /\ pc' = NextCell(pc)
    /\ IF table.exists
       THEN /\ df' = [kind |-> "details", frame |-> table.cols]
            /\ column_names_list' = ColNames(table)
            /\ UNCHANGED raised
       ELSE /\ raised' = Append(raised, Raise("no table"))
            /\ UNCHANGED <<df, column_names_list>>
    /\ UNCHANGED <<env, fs, table, model, sl, static_cols, blacklist, varlist, q,
                   printed, issued>>

-----------------------------------------------------------------------------
(* Modeling *)

BlacklistCell ==
    /\ pc = "blacklist"
    /\ pc' = NextCell(pc)
    /\ static_cols' = CodeStaticCols
    /\ IF column_names_list = <<>>
       THEN /\ blacklist' = CodeBlacklist
            /\ raised' = Append(raised, Raise("column_names_list is not bound"))
       ELSE /\ blacklist' = ExtendBlacklist(CodeBlacklist, column_names_list,
                                            CodeStaticCols)
            /\ UNCHANGED raised
    /\ UNCHANGED <<env, fs, table, model, sl, df, column_names_list, varlist, q,
                   printed, issued>>

\* varlist = organize_predictor_cols(df)
OrganizeCell ==
    /\ pc = "organize"
    /\ pc' = NextCell(pc)
    /\ IF column_names_list # <<>> /\ df.kind = "details"
       THEN /\ varlist' = organize_predictor_cols(df.frame)
            /\ UNCHANGED raised
       ELSE /\ raised' = Append(raised, Raise("organize_predictor_cols"))
            /\ UNCHANGED varlist
    /\ UNCHANGED <<env, fs, table, model, sl, df, column_names_list, static_cols,
                   blacklist, q, printed, issued>>

\* q = f"CREATE OR REPLACE MODEL su_sar_rf ... SELECT {varlist} FROM {tn} WITH (...)"
BuildCreateCell(cell, options) ==
    /\ pc = cell
    /\ pc' = NextCell(pc)
    /\ IF varlist = <<>>
       THEN /\ raised' = Append(raised, Raise("varlist is not bound"))
            /\ UNCHANGED q
       ELSE /\ q' = CreateModelStmt(varlist, options)
            /\ UNCHANGED raised
    /\ UNCHANGED <<env, fs, table, model, sl, df, column_names_list, static_cols,
                   blacklist, varlist, printed, issued>>

\* the cell with the handler left out: the failure is an exception of the cell
CreateOutcomeUncaught(r) ==
    /\ printed' = printed
    /\ raised' = IF r.ok THEN raised ELSE Append(raised, Raise("store"))

\* try: con.execute(q)  except: print(f"Failed to create model su_sar_rf with query\n {q}")
CreateOutcome(r) ==
    /\ printed' = IF r.ok THEN printed
                  ELSE Append(printed,
                         SaidWith("Failed to create model su_sar_rf with query", q))
    /\ raised' = raised

CreateCell(cell) ==
    /\ pc = cell
    /\ pc' = NextCell(pc)
    /\ \E lucky \in BOOLEAN :
         LET r == Exec(q, table, model, <<>>, lucky)
         IN  /\ table' = r.table
             /\ model' = r.model
             /\ issued' = Append(issued, Sent(q, r.ok))
             /\ CreateOutcome(r)
    /\ UNCHANGED <<env, fs, kernel>>

\* df = pd.read_sql_query(<query>, con), outside any try
QueryCell(cell, s, kind, said) ==
    /\ pc = cell
    /\ pc' = NextCell(pc)
    /\ LET r == Exec(s, table, model, <<>>, TRUE)
       IN  /\ issued' = Append(issued, Sent(s, r.ok))
           /\ df' = IF r.ok THEN [kind |-> kind, frame |-> <<>>] ELSE df
           /\ raised' = IF r.ok THEN raised ELSE Append(raised, Raise("store"))
           /\ printed' = IF r.ok /\ said # "" THEN Append(printed, Said(said))
                         ELSE printed
    /\ UNCHANGED <<env, fs, table, model, sl, column_names_list, static_cols,
                   blacklist, varlist>>

BuildCreate1Cell == BuildCreateCell("build_create1", "EVAL_FRACTION=0.20")

Create1Cell == CreateCell("create1")

Eval1Cell ==
    /\ QueryCell("eval1", Stmt("evaluate", "", "su_sar_rf"), "eval", "su_sar_rf r2 =")
    /\ UNCHANGED q

BuildCreate2Cell == BuildCreateCell("build_create2", "EVAL_FRACTION=0.20, NUM_TREES=50")

Create2Cell == CreateCell("create2")

ShowDetailsCell ==
    /\ QueryCell("show_details", Stmt("show_details", "", "su_sar_rf"), "model_details", "")
    /\ UNCHANGED q

Eval2Cell ==
    /\ QueryCell("eval2", Stmt("evaluate", "", "su_sar_rf"), "eval", "su_sar_rf r2 =")
    /\ UNCHANGED q

ImportanceCell ==
    /\ QueryCell("importance", Stmt("importance", "", "su_sar_rf"), "importance", "")
    /\ q' = Stmt("importance", "", "su_sar_rf")

-----------------------------------------------------------------------------
(* Restarts: the stage that has just ended is run again, or the notebook is *)
(* run again from its first cell.  The kernel, the files and the store stay *)
(* as they are.                                                            *)

MaxReruns == 1

RerunStage ==
    /\ reruns < MaxReruns
    /\ \E i \in 2..Len(StageStarts) :
         /\ pc = StageStarts[i]
         /\ pc' = StageStarts[i - 1]
    /\ reruns' = reruns + 1
    /\ UNCHANGED <<cwd_is_path, archive_files, identifier_cols, fs, table, model,
                   kernel, printed, raised, issued>>

RerunNotebook ==
    /\ reruns < MaxReruns
    /\ pc = "done"
    /\ pc' = "download"
    /\ reruns' = reruns + 1
    /\ UNCHANGED <<cwd_is_path, archive_files, identifier_cols, fs, table, model,
                   kernel, printed, raised, issued>>

-----------------------------------------------------------------------------
(* The label files an archive may hold *)

RowA == NewRow(<<"0", "2", "/", "2", "9", "/", "1", "6">>, -120, 38,
               Num(30), Num(40), Num(30))

RowB == NewRow(<<"1", "2", "/", "3", "1", "/", "1", "5">>, -119, 36,
               Num(SENTINEL), Num(SENTINEL), Num(SENTINEL))

RowC == NewRow(<<"1", "3", "/", "0", "1", "/", "1", "5">>, -118, 34,
               NULL, Num(SENTINEL), Num(20))

RowD == NewRow(<<"2", "0", "1", "5", "-", "0", "7", "-", "0", "4">>, -117, 33,
               Num(25), NULL, Num(SENTINEL))

FileA == [name |-> "su_sar_moisture_content_a/labels.geojson", rows |-> <<RowA, RowB>>]

FileB == [name |-> "su_sar_moisture_content_b/labels.geojson", rows |-> <<RowC>>]

FileC == [name |-> "su_sar_moisture_content_c/labels.geojson", rows |-> <<RowD, RowA>>]

Archives == {<<FileA, FileB>>, <<FileB, FileC>>, <<FileC>>}

UnboundFrame == [kind |-> "none", frame |-> <<>>]

Init ==
    /\ pc = "download"
    /\ reruns = 0
    /\ cwd_is_path \in BOOLEAN
    /\ fs \in {{}, {"archive"}, {"archive", "extracted"}}
    /\ archive_files \in Archives
    /\ table = NoTable
    /\ model = NoModel
    /\ sl = <<>>
    /\ df = UnboundFrame
    /\ column_names_list = <<>>
    /\ static_cols = <<>>
    /\ blacklist = <<>>
    /\ varlist = <<>>
    /\ q = NoStmt
    /\ printed = <<>>
    /\ raised = <<>>
    /\ issued = <<>>
    /\ identifier_cols = CodeBlacklist

Next ==
    \/ DownloadCell
    \/ ExtractCell
    \/ IngestCell
    \/ SchemaCell("schema")
    \/ CleanSoilCell
    \/ PreviewDatesCell
    \/ AddObsDateCell
    \/ AddObsDoyCell
    \/ SetObsDateCell
    \/ SetObsDoyCell
    \/ Hex08Cell
    \/ SinDoyCell
    \/ CosDoyCell
    \/ AddZenithCell
    \/ SetZenithCell
    \/ DetailsCell
    \/ SchemaCell("schema2")
    \/ BlacklistCell
    \/ OrganizeCell
    \/ BuildCreate1Cell
    \/ Create1Cell
    \/ Eval1Cell
    \/ BuildCreate2Cell
    \/ Create2Cell
    \/ ShowDetailsCell
    \/ Eval2Cell
    \/ ImportanceCell
    \/ RerunStage
    \/ RerunNotebook

Spec == Init /\ [][Next]_vars

-----------------------------------------------------------------------------
(* Predictor-list construction on its own: the catalog, the identifier list *)
(* and the stems are inputs; the denylist loops and the function are run.   *)

MaxCols == 3

\* the type names a catalog may give: three continuous, the categorical one,
\* and two the function does not recognize
Types == {"DOUBLE", "FLOAT", "SMALLINT", "string", "BIGINT"}

\* the identifier list and stems of the notebook, and those of the worked
\* example (denylist a, b; stem x), each with the names catalogs are drawn from
DenyConfigs ==
    {[fixed |-> CodeBlacklist, static |-> CodeStaticCols,
      pool |-> {"site", "sandt", "slope_t3", "zenith"}],
     [fixed |-> <<"a", "b">>, static |-> <<"x">>,
      pool |-> {"target", "a", "x_t1", "x"}]}

\* the catalogs of at most MaxCols distinct columns named from pool
Catalogs(pool) ==
    {s \in UNION {[1..n -> pool] : n \in 1..MaxCols} :
        \A i, j \in 1..Len(s) : i # j => s[i] # s[j]}

\* the worked example's catalog
ExampleColumns == <<"target", "a", "b", "x_t1", "x", "cat1", "cont1">>

Frame(names, types) == [i \in 1..Len(names) |-> [name |-> names[i], type |-> types[i]]]

PredInputs(names, types, fixed, static) ==
    /\ pc = "pred_blacklist"
    /\ column_names_list = names
    /\ df = [kind |-> "details", frame |-> Frame(names, types)]
    /\ identifier_cols = fixed
    /\ blacklist = fixed
    /\ static_cols = static
    /\ varlist = <<>>
    /\ reruns = 0
    /\ cwd_is_path = TRUE
    /\ fs = {}
    /\ archive_files = <<>>
    /\ table = NoTable
    /\ model = NoModel
    /\ sl = <<>>
    /\ q = NoStmt
    /\ printed = <<>>
    /\ raised = <<>>
    /\ issued = <<>>

InitPred ==
    \/ \E cfg \in DenyConfigs : \E names \in Catalogs(cfg.pool) :
         \E types \in [1..Len(names) -> Types] :
            PredInputs(names, types, cfg.fixed, cfg.static)
    \/ \E tt, ta, tb, tl, tx \in Types :
         PredInputs(ExampleColumns, <<tt, ta, tb, tl, tx, "string", "FLOAT">>,
                    <<"a", "b">>, <<"x">>)

\* the two loops that extend the denylist
PredBlacklist ==
    /\ pc = "pred_blacklist"
    /\ pc' = "pred_organize"
    /\ blacklist' = ExtendBlacklist(blacklist, column_names_list, static_cols)
    /\ UNCHANGED <<env, fs, table, model, sl, df, column_names_list, static_cols,
                   varlist, q, printed, raised, issued>>

\* varlist = organize_predictor_cols(df)
PredOrganize ==
    /\ pc = "pred_organize"
    /\ pc' = "pred_done"
    /\ varlist' = organize_predictor_cols(df.frame)
    /\ UNCHANGED <<env, fs, table, model, sl, df, column_names_list, static_cols,
                   blacklist, q, printed, raised, issued>>

NextPred == PredBlacklist \/ PredOrganize

SpecPred == InitPred /\ [][NextPred]_vars

-----------------------------------------------------------------------------
(* Properties of predictor-list construction, checked under SpecPred *)

\* the denylist as the specification words it: the identifier list, plus the
\* columns whose name holds a static stem and a lag marker
Denied(c) ==
    \/ MemberOf(c, identifier_cols)
    \/ /\ \E i \in 1..Len(static_cols) : StrIn(static_cols[i], c)
       /\ \E lag \in {"t1", "t2", "t3"} : StrIn(lag, c)

TypeOfCol(c) == CHOOSE t \in TypesOf(df.frame, c) : TRUE

ContinuousCol(c) == TypeOfCol(c) \in {"DOUBLE", "FLOAT", "SMALLINT"}

CategoricalCol(c) == TypeOfCol(c) = "string"

Target == column_names_list[1]

SelectedCat == SelectSeq(column_names_list, LAMBDA c : ~Denied(c) /\ CategoricalCol(c))

SelectedCont == SelectSeq(column_names_list, LAMBDA c : ~Denied(c) /\ ContinuousCol(c))

NotTarget(cols) == SelectSeq(cols, LAMBDA c : c # Target)

\* the items of the returned list
Items == Elements(varlist)

\* the column names among the items, in order
ListedNames ==
    LET named == SelectSeq(Items, LAMBDA e : Len(e) = 1 /\ e[1] # DUMMY)
    IN  [i \in 1..Len(named) |-> named[i][1]]

Listed(c) == MemberOf(c, ListedNames)

Organized == pc = "pred_done"

\* C1: the returned list is the target, then every selected categorical
\* column, then every selected continuous column, in catalog order (the
\* target's own column counted in its class or left out of it).
C1_TargetCatsConts ==
    Organized =>
        \/ ListedNames = <<Target>> \o SelectedCat \o SelectedCont
        \/ ListedNames = <<Target>> \o NotTarget(SelectedCat) \o NotTarget(SelectedCont)

\* C2: after the target the returned list holds a continuous predictor: a
\* continuous column's name, or the constant placeholder.
C2_SomeContinuous ==
    Organized =>
        \E i \in 2..Len(Items) :
            /\ Len(Items[i]) = 1
            /\ \/ Items[i][1] = DUMMY
               \/ /\ MemberOf(Items[i][1], column_names_list)
                  /\ ContinuousCol(Items[i][1])

\* the column names among the items after the first
ListedPredictors == IF Len(ListedNames) = 0 THEN <<>> ELSE Tail(ListedNames)

\* C3: no denylisted column is among the predictors of the returned list, and
\* every other column of a recognized type is kept (the target in the first
\* place, the others among the predictors).
C3_DenylistExact ==
    Organized =>
        \A i \in 1..Len(column_names_list) :
            LET c == column_names_list[i]
            IN  /\ Denied(c) => ~MemberOf(c, ListedPredictors)
                /\ (~Denied(c) /\ (ContinuousCol(c) \/ CategoricalCol(c))) => Listed(c)

\* the worked example: denylist a, b; stem x; the seven columns in order
Example ==
    /\ column_names_list = ExampleColumns
    /\ identifier_cols = <<"a", "b">>
    /\ static_cols = <<"x">>

ItemsOf(names) == [i \in 1..Len(names) |-> <<names[i]>>]

-----------------------------------------------------------------------------
(* Properties of the workflow, checked under Spec *)

\* the step ran the cell at pc (it is not a restart)
Ran == pc' # pc /\ reruns' = reruns

\* what the step sent to the store, and what it printed
NewIssued == SubSeq(issued', Len(issued) + 1, Len(issued'))

NewPrinted == SubSeq(printed', Len(printed) + 1, Len(printed'))

DerivedCols == {"obs_date", "obs_doy", "hex08", "sin_doy", "cos_doy", "zenith"}

FeatureCols == {"hex08", "sin_doy", "cos_doy", "zenith"}

EnrichCells ==
    {"hex08", "sin_doy", "cos_doy", "add_zenith", "set_zenith", "details", "schema2"}

\* C5: a run of the enrichment cells over a table that already holds every
\* derived column sends no ADD COLUMN, leaves the schema as it is and raises
\* no error.
C5_SecondRunQuiet ==
    [][(pc \in EnrichCells /\ Ran /\ \A c \in DerivedCols : HasCol(table, c)) =>
          /\ table'.cols = table.cols
          /\ raised' = raised
          /\ \A i \in 1..Len(NewIssued) : NewIssued[i].stmt.op # "add_column"]_vars

\* the store executed an update of column c
Populated(c) ==
    \E i \in 1..Len(issued) :
        issued[i].ok /\ issued[i].stmt.op = "update" /\ issued[i].stmt.col = c

\* C6: when the first run of the enrichment stage has ended, each derived
\* feature column exists and was populated by an update of that same column,
\* and no update of the stage named a column that was not there.
C6_FeaturesPopulated ==
    (pc = "blacklist" /\ reruns = 0 /\ table.exists) =>
        /\ \A c \in FeatureCols : HasCol(table, c) /\ Populated(c)
        /\ \A i \in 1..Len(issued) :
              (issued[i].cell \in EnrichCells /\ issued[i].stmt.op = "update")
                  => issued[i].ok

\* the rows of the files whose load succeeded, in file order
RECURSIVE RowsLoaded(_, _, _)
RowsLoaded(files, sent, i) ==
    IF i > Len(files) THEN <<>>
    ELSE (IF sent[i].ok THEN files[i].rows ELSE <<>>) \o RowsLoaded(files, sent, i + 1)

\* C7: the ingestion loop sends one COPY per globbed file, in order, whatever
\* loads fail; a failed load raises nothing and is reported with its
\* statement, and the table afterwards holds the rows it held before followed
\* by the rows of every file that loaded.
C7_EveryFileAttempted ==
    [][(pc = "ingest" /\ Ran) =>
          LET files == Glob(fs, archive_files)
          IN  /\ pc' = "schema"
              /\ Len(NewIssued) = Len(files)
              /\ \A i \in 1..Len(files) : NewIssued[i].stmt = CopyStmt(files[i])
              /\ raised' = raised
              /\ \A i \in 1..Len(files) :
                    ~NewIssued[i].ok =>
                        \E j \in 1..Len(NewPrinted) :
                            /\ NewPrinted[j].msg = "Problem loading soil moisture file"
                            /\ NewPrinted[j].stmt = NewIssued[i].stmt
              /\ table'.rows = table.rows \o RowsLoaded(files, NewIssued, 1)]_vars

\* the first file's load failed, the second file was still tried and loaded
C7_Witness ==
    /\ pc = "schema" /\ reruns = 0
    /\ Len(issued) = 2
    /\ ~issued[1].ok /\ issued[2].ok
    /\ Len(printed) > 0
    /\ printed[Len(printed)].msg = "Problem loading soil moisture file"
    /\ raised = <<>>
    /\ table.rows = archive_files[2].rows

SoilFieldSet == {"siltt", "sandt", "clayt"}

\* how many soil values of the table equal v
CountSoil(t, v) ==
    Cardinality({p \in (1..Len(t.rows)) \X SoilFieldSet : t.rows[p[1]][p[2]] = v})

CleanedSoil == pc = "clean_soil" /\ Ran /\ table.exists

\* C8 as claimed: after the soil cell no soil value is -999.0 and the nulls
\* after it are as many as the -999.0 values before it.
C8_NullsEqualSentinels ==
    [][CleanedSoil =>
          /\ CountSoil(table', Num(SENTINEL)) = 0
          /\ CountSoil(table', NULL) = CountSoil(table, Num(SENTINEL))]_vars

\* C8, amended: after the soil cell no soil value is -999.0, every other soil
\* value is as before, and the nulls after it are as many as the -999.0
\* values before it plus the nulls that were already there.
C8_SentinelsBecomeNull ==
    [][CleanedSoil =>
          /\ CountSoil(table', Num(SENTINEL)) = 0
          /\ CountSoil(table', NULL)
                = CountSoil(table, Num(SENTINEL)) + CountSoil(table, NULL)
          /\ Len(table'.rows) = Len(table.rows)
          /\ \A i \in 1..Len(table.rows) : \A f \in SoilFieldSet :
                table'.rows[i][f] =
                    IF table.rows[i][f] = Num(SENTINEL) THEN NULL
                    ELSE table.rows[i][f]]_vars

\* the soil cell has run on a table loaded with a row whose clay was -999.0
C8_Witness ==
    /\ pc = "preview_dates"
    /\ table.exists
    /\ Len(issued) >= 3
    /\ issued[Len(issued)].ok /\ issued[Len(issued)].stmt.op = "null_sentinel"
    /\ \E i \in 1..Len(table.rows) : \E k \in 1..Len(archive_files) :
         \E j \in 1..Len(archive_files[k].rows) :
            /\ archive_files[k].rows[j].clayt = Num(SENTINEL)
            /\ archive_files[k].rows[j].date_ = table.rows[i].date_
            /\ table.rows[i].clayt = NULL

\* C9: a download happens only without an archive, an extraction only
\* without the extraction directory, and once an archive has been unpacked
\* the extraction directory exists (so that the next run does neither).
C9_AcquireOnce ==
    [][/\ (pc = "download" /\ "archive" \in fs) => fs' = fs
       /\ (pc = "extract" /\ "extracted" \in fs) => fs' = fs
       /\ (pc = "extract" /\ Ran /\ "archive" \in fs) => "extracted" \in fs']_vars

CreateCells == {"create1", "create2"}

\* C10: a model-creation cell sends its statement once; a failure raises
\* nothing and is printed with the statement; the next cell follows, and each
\* evaluation or importance cell sends its query, which succeeds exactly when
\* the store holds a model under the name.
C10_CreateFailureCaught ==
    [][/\ (pc \in CreateCells /\ Ran) =>
            /\ pc' = NextCell(pc)
            /\ Len(NewIssued) = 1 /\ NewIssued[1].stmt = q
            /\ raised' = raised
            /\ NewPrinted =
                  IF NewIssued[1].ok THEN <<>>
                  ELSE <<SaidWith("Failed to create model su_sar_rf with query", q)>>
       /\ (pc \in {"eval1", "eval2", "importance"} /\ Ran) =>
            /\ Len(NewIssued) = 1
            /\ NewIssued[1].stmt.op = (IF pc = "importance" THEN "importance" ELSE "evaluate")
            /\ NewIssued[1].ok = model.exists]_vars

\* the first creation failed with no model in the store, the evaluation after
\* it was sent and failed, and the notebook went on to the importance query
C10_Witness ==
    /\ pc = "done" /\ reruns = 0
    /\ \E i, j, k \in 1..Len(issued) :
         /\ i < j /\ j < k
         /\ issued[i].cell = "create1" /\ issued[i].stmt.op = "create_model"
         /\ ~issued[i].ok
         /\ issued[j].cell = "eval1" /\ ~issued[j].ok
         /\ issued[k].cell = "importance"
    /\ \E i \in 1..Len(printed) :
         /\ printed[i].cell = "create1"
         /\ printed[i].msg = "Failed to create model su_sar_rf with query"
         /\ printed[i].stmt.op = "create_model"

\* what identifies a sample record: where and when it was taken
RecordKey(r) == <<r.date_, r.geom>>

\* C11: in every step the records of the table stay (they are at most
\* updated), so the row count never decreases; records are added only by the
\* ingestion cell, and a record it adds is not one the table already holds.
C11_CreatedOnce ==
    [][/\ Len(table'.rows) >= Len(table.rows)
       /\ \A i \in 1..Len(table.rows) :
             RecordKey(table'.rows[i]) = RecordKey(table.rows[i])
       /\ Len(table'.rows) > Len(table.rows) => pc = "ingest"
       /\ \A j \in (Len(table.rows) + 1)..Len(table'.rows) :
             \A i \in 1..Len(table.rows) :
                RecordKey(table'.rows[j]) # RecordKey(table.rows[i])]_vars

-----------------------------------------------------------------------------
(* The two date updates on their own: the table holds two loaded records    *)
(* whose date strings are inputs, the obs_date and obs_doy columns have     *)
(* been added, and the two update cells are run.                           *)

DateMonths == {<<"1">>, <<"0", "2">>, <<"1", "2">>, <<"1", "3">>, <<"0">>, <<"x">>}

DateDays == {<<"1">>, <<"0", "1">>, <<"2", "9">>, <<"3", "0">>, <<"3", "1">>, <<"3", "2">>}

DateYears == {<<"1", "5">>, <<"1", "6">>, <<"2", "0", "1", "6">>, <<>>}

DateSeps == {"/", "-"}

\* month, day and year written with the separator between them
DateString(mm, sep, dd, yy) == mm \o <<sep>> \o dd \o <<sep>> \o yy

\* the date strings of the second record: a last day of a leap year, and an
\* ISO date, which the legacy format does not fit
OtherDates ==
    {<<"1", "2", "/", "3", "1", "/", "1", "6">>,
     <<"2", "0", "1", "5", "-", "0", "7", "-", "0", "4">>}

DatedCols ==
    BaseCols \o <<[name |-> "obs_date", type |-> "TIMESTAMP"],
                  [name |-> "obs_doy", type |-> "SMALLINT"]>>

DateInputs(d1, d2) ==
    /\ pc = "set_obs_date"
    /\ table = [exists |-> TRUE, cols |-> DatedCols,
                rows |-> <<NewRow(d1, -120, 38, Num(30), Num(40), Num(30)),
                           NewRow(d2, -117, 33, Num(25), NULL, NULL)>>]
    /\ sl = ColNames([exists |-> TRUE, cols |-> BaseCols, rows |-> <<>>])
    /\ q = Stmt("select_dates", "", "")
    /\ df = [kind |-> "dates", frame |-> <<>>]
    /\ reruns = 0
    /\ cwd_is_path = TRUE
    /\ fs = {"archive", "extracted"}
    /\ archive_files = <<>>
    /\ model = NoModel
    /\ column_names_list = <<>>
    /\ static_cols = <<>>
    /\ blacklist = <<>>
    /\ varlist = <<>>
    /\ identifier_cols = CodeBlacklist
    /\ printed = <<>>
    /\ raised = <<>>
    /\ issued = <<>>

InitDates ==
    \E mm \in DateMonths : \E dd \in DateDays : \E yy \in DateYears :
        \E sep \in DateSeps : \E d2 \in OtherDates :
            DateInputs(DateString(mm, sep, dd, yy), d2)

NextDates == SetObsDateCell \/ SetObsDoyCell

SpecDates == InitDates /\ [][NextDates]_vars

-----------------------------------------------------------------------------
(* Properties of the date updates, checked under SpecDates *)

\* the cleaning stage has ended: the next cell is an enrichment cell or later
AfterCleaning == pc \in {Cells[i] : i \in CellIndex("hex08")..Len(Cells)}

\* C12: after the cleaning stage every row's obs_doy is null or an integer
\* in 1..366 and is null exactly when obs_date is null; a row whose date
\* string does not parse has null in both, and a row whose date string parses
\* has its day of year whatever the other rows hold.
C12_DoyInRange ==
    (AfterCleaning /\ table.exists) =>
        \A i \in 1..Len(table.rows) :
            LET r == table.rows[i]
            IN  /\ r.obs_doy = NULL \/ (r.obs_doy[1] = "num" /\ r.obs_doy[2] \in 1..366)
                /\ r.obs_doy = NULL <=> r.obs_date = NULL
                /\ ParseDate(r.date_) = NULL => r.obs_date = NULL /\ r.obs_doy = NULL
                /\ ParseDate(r.date_) # NULL => r.obs_doy # NULL

\* both updates have run on a table where one record's date string does not
\* parse and the other record's is the last day of a leap year
C12_Witness ==
    /\ pc = "hex08"
    /\ Len(issued) = 2 /\ issued[1].ok /\ issued[2].ok
    /\ issued[2].stmt = Stmt("update", "obs_doy", "doy_of_parse_date")
    /\ table.rows[1].date_ = <<"1", "3", "/", "0", "1", "/", "1", "5">>
    /\ table.rows[1].obs_date = NULL /\ table.rows[1].obs_doy = NULL
    /\ table.rows[2].obs_date # NULL /\ table.rows[2].obs_doy = Num(366)

-----------------------------------------------------------------------------
(* A further property of predictor-list construction, checked under SpecPred *)

\* C13: the returned list has no empty element and no element twice, and
\* every selected continuous column other than the target is in it.
C13_NoRepeatsNoGaps ==
    Organized =>
        /\ \A i \in 1..Len(Items) : Len(Items[i]) = 1
        /\ \A i, j \in 1..Len(Items) : i # j => Items[i] # Items[j]
        /\ \A i \in 1..Len(SelectedCont) :
              SelectedCont[i] # Target => Listed(SelectedCont[i])

=============================================================================
